---- MODULE Spec2Model ----
(***************************************************************************)
(* A model of bot-template/app/__main__.py: the webhook echo bot.          *)
(*                                                                         *)
(* The module under study is one asyncio process.  Its state is the        *)
(* configuration read from the environment, the position of main(), the    *)
(* aiogram client session, the listening socket, the HTTP requests that    *)
(* reached the server and the update-processing tasks they spawned.        *)
(*                                                                         *)
(* Python's Optional[str] values (os.getenv without a default, and         *)
(* Message.text) are modelled as sequences of length 0 (None) or 1 (a      *)
(* string), so that None and the empty string stay different values.       *)
(***************************************************************************)
EXTENDS Naturals, Sequences, FiniteSets, TLC

VARIABLES
    BOT_TOKEN,     \* os.getenv("BOT_TOKEN")
    WEBHOOK_URL,   \* os.getenv("WEBHOOK_URL")
    BOT_NAME,      \* os.getenv("BOT_NAME", "bot")
    pc,            \* position of the process (module import, then main())
    exitCode,      \* exit status, meaningful once pc = "exited"
    failure,       \* which startup step raised, "none" if none did
    bot,           \* TRUE once Bot(token=...) has returned
    session,       \* bot.session: "none" (not created yet), "open", "closed"
    listening,     \* TRUE while the TCPSite socket accepts connections
    webhookCalls,  \* the set_webhook calls issued, in order
    registered,    \* the URL the platform has registered for this bot, or None
    bindAttempts,  \* how many times site.start() was attempted
    req,           \* the HTTP requests accepted so far, in arrival order
    sent,          \* the sendMessage calls issued, in order
    logged         \* requests whose update-processing failure was logged

vars == <<BOT_TOKEN, WEBHOOK_URL, BOT_NAME, pc, exitCode, failure, bot, session,
          listening, webhookCalls, registered, bindAttempts, req, sent, logged>>

config == <<BOT_TOKEN, WEBHOOK_URL, BOT_NAME>>

-----------------------------------------------------------------------------
(* Bounds *)

MaxRequests == 2

-----------------------------------------------------------------------------
(* Values *)

None == <<>>
Str(s) == <<s>>

\* Truth value of an Optional[str]: None and "" are falsy.
Truthy(x) == x # None /\ x[1] # ""

\* What an f-string replacement field {x} renders: format(x, ""), which is
\* str(x); str(None) is the four letters "None".
Format(x) == IF x = None THEN "None" ELSE x[1]

Tokens == {None, Str("not a token"), Str("42:revoked"), Str("42:valid")}
\* aiogram's validate_token: a str of the shape <digits>:<secret>.
WellFormedTokens == {Str("42:revoked"), Str("42:valid")}
\* The tokens the platform accepts on an API call.
AcceptedTokens == {Str("42:valid")}

Urls == {None, Str(""), Str("https://bot.example/webhook")}
Names == {"bot", "garden"}

Chats == {7, 9}
Texts == {None, Str(""), Str("hi")}
\* The updates POST /webhook can deliver: a message (text, or text absent as for
\* a photo), or an update that is no message at all.
Updates ==
    [kind : {"message"}, chat : Chats, text : Texts] \cup {[kind |-> "other"]}
NoUpdate == [kind |-> "none"]

-----------------------------------------------------------------------------
(* Initial state: the configuration has been read (lines 9-12), nothing else *)
(* has run.                                                                  *)

Init ==
    /\ BOT_TOKEN \in Tokens
    /\ WEBHOOK_URL \in Urls
    /\ BOT_NAME \in Names
    /\ pc = "import"
    /\ exitCode = 0
    /\ failure = "none"
    /\ bot = FALSE
    /\ session = "none"
    /\ listening = FALSE
    /\ webhookCalls = <<>>
    /\ registered = None
    /\ bindAttempts = 0
    /\ req = <<>>
    /\ sent = <<>>
    /\ logged = {}

-----------------------------------------------------------------------------
(* Process exit *)

\* The state of every task once the event loop is torn down: tasks that have
\* not finished are cancelled.
CancelTasks(r) ==
    [i \in DOMAIN r |->
        IF r[i].task \in {"scheduled", "awaiting_send"}
        THEN [r[i] EXCEPT !.task = "cancelled"]
        ELSE r[i]]

\* An exception leaves main() (no handler encloses the startup steps) and so
\* asyncio.run(): the interpreter prints the traceback and exits with status 1.
Raise(cause) ==
    /\ pc' = "exited"
    /\ exitCode' = 1
    /\ failure' = cause
    /\ listening' = FALSE
    /\ req' = CancelTasks(req)

-----------------------------------------------------------------------------
(* Startup *)

\* Line 19: bot = Bot(token=BOT_TOKEN), executed at import.
CreateBot ==
    /\ pc = "import"
    /\ IF BOT_TOKEN \in WellFormedTokens
       THEN /\ bot' = TRUE
            /\ pc' = "main"
            /\ UNCHANGED <<exitCode, failure, listening, req>>
       ELSE /\ Raise("token")
            /\ UNCHANGED bot
    /\ UNCHANGED <<config, session, webhookCalls, registered, bindAttempts,
                   sent, logged>>

\* Mutant: the test written as "WEBHOOK_URL is not None".
WebhookConfigured_NotNone == WEBHOOK_URL # None

\* Line 47: if WEBHOOK_URL:
WebhookConfigured == Truthy(WEBHOOK_URL)

\* Mutant: main() goes straight to the server start, registering nothing.
main_begin_NoRegistration ==
    /\ pc = "main"
    /\ pc' = "runner_setup"
    /\ UNCHANGED <<config, exitCode, failure, bot, session, listening,
                   webhookCalls, registered, bindAttempts, req, sent, logged>>

\* Lines 33-48: main() up to its first await.
main_begin ==
    /\ pc = "main"
    /\ IF WebhookConfigured
       THEN /\ webhookCalls' = Append(webhookCalls,
                    [url |-> WEBHOOK_URL[1], drop_pending_updates |-> TRUE])
            /\ session' = "open"
            /\ pc' = "set_webhook"
       ELSE /\ pc' = "runner_setup"
            /\ UNCHANGED <<webhookCalls, session>>
    /\ UNCHANGED <<config, exitCode, failure, bot, listening, registered,
                   bindAttempts, req, sent, logged>>

\* Line 48 returns: the platform accepted the registration.
set_webhook_ok ==
    /\ pc = "set_webhook"
    /\ BOT_TOKEN \in AcceptedTokens
    /\ registered' = WEBHOOK_URL
    /\ pc' = "runner_setup"
    /\ UNCHANGED <<config, exitCode, failure, bot, session, listening,
                   webhookCalls, bindAttempts, req, sent, logged>>

\* Mutant: the failed registration is caught and main() carries on.
set_webhook_raise_Swallowed ==
    /\ pc = "set_webhook"
    /\ failure' = "webhook"
    /\ pc' = "runner_setup"
    /\ UNCHANGED <<config, exitCode, bot, session, listening, webhookCalls,
                   registered, bindAttempts, req, sent, logged>>

\* Line 48 raises: the platform rejected the token, or could not be reached.
set_webhook_raise ==
    /\ pc = "set_webhook"
    /\ Raise("webhook")
    /\ UNCHANGED <<config, bot, session, webhookCalls, registered, bindAttempts,
                   sent, logged>>

\* Lines 52-53: runner = web.AppRunner(app); await runner.setup()
runner_setup(ok) ==
    /\ pc = "runner_setup"
    /\ IF ok
       THEN /\ pc' = "site_start"
            /\ UNCHANGED <<exitCode, failure, listening, req>>
       ELSE Raise("setup")
    /\ UNCHANGED <<config, bot, session, webhookCalls, registered, bindAttempts,
                   sent, logged>>

\* Lines 54-57: site = web.TCPSite(...); await site.start().  The bind fails
\* when the port is taken; main() then runs up to await asyncio.Future().
site_start(ok) ==
    /\ pc = "site_start"
    /\ bindAttempts' = bindAttempts + 1
    /\ IF ok
       THEN /\ listening' = TRUE
            /\ pc' = "serving"
            /\ UNCHANGED <<exitCode, failure, req>>
       ELSE Raise("bind")
    /\ UNCHANGED <<config, bot, session, webhookCalls, registered, sent, logged>>

-----------------------------------------------------------------------------
(* Termination *)

\* asyncio.run() returns or raises: the loop is closed, the sockets with it,
\* and every unfinished task is cancelled.  An interrupted run exits non-zero.
Exit ==
    /\ pc' = "exited"
    /\ exitCode' = 130
    /\ listening' = FALSE
    /\ req' = CancelTasks(req)

\* The interrupt reaches main() while it awaits a startup step (lines 48, 53,
\* 55), which no try statement encloses.
TerminateStartup ==
    /\ pc \in {"set_webhook", "runner_setup", "site_start"}
    /\ Exit
    /\ UNCHANGED <<config, failure, bot, session, webhookCalls, registered,
                   bindAttempts, sent, logged>>

\* Lines 60-63: the interrupt cancels await asyncio.Future(); the finally
\* clause runs await bot.session.close().  Closing an open session suspends
\* main() once more (aiogram sleeps while the connections close), with the
\* event loop still running; with no session to close, main() returns at once.
TerminateServing ==
    /\ pc = "serving"
    /\ IF session = "open"
       THEN /\ session' = "closed"
            /\ pc' = "closing"
            /\ UNCHANGED <<exitCode, listening, req>>
       ELSE /\ Exit
            /\ UNCHANGED session
    /\ UNCHANGED <<config, failure, bot, webhookCalls, registered, bindAttempts,
                   sent, logged>>

\* Line 63 returns, main() returns, asyncio.run() tears the loop down.
session_closed ==
    /\ pc = "closing"
    /\ Exit
    /\ UNCHANGED <<config, failure, bot, session, webhookCalls, registered,
                   bindAttempts, sent, logged>>

-----------------------------------------------------------------------------
(* Requests *)

\* The event loop runs the server's tasks while main() is suspended.
LoopRunning == pc \in {"serving", "closing"}

\* A client's request reaches the listening socket.
Arrive(path, update) ==
    /\ listening
    /\ Len(req) < MaxRequests
    /\ req' = Append(req,
            [path |-> path, update |-> update, status |-> 0, body |-> "",
             task |-> "none"])
    /\ UNCHANGED <<config, pc, exitCode, failure, bot, session, listening,
                   webhookCalls, registered, bindAttempts, sent, logged>>

\* Mutant: the health check waits for the webhook tasks awaiting their send.
health_check_Serialized(i) ==
    /\ LoopRunning
    /\ req[i].path = "/health"
    /\ req[i].status = 0
    /\ \A j \in DOMAIN req : req[j].task # "awaiting_send"
    /\ req' = [req EXCEPT ![i].status = 200, ![i].body = "OK"]
    /\ UNCHANGED <<config, pc, exitCode, failure, bot, session, listening,
                   webhookCalls, registered, bindAttempts, sent, logged>>

\* Lines 27-29: health_check returns web.Response(text="OK"), status 200.
health_check(i) ==
    /\ LoopRunning
    /\ req[i].path = "/health"
    /\ req[i].status = 0
    /\ req' = [req EXCEPT ![i].status = 200, ![i].body = "OK"]
    /\ UNCHANGED <<config, pc, exitCode, failure, bot, session, listening,
                   webhookCalls, registered, bindAttempts, sent, logged>>

\* Lines 42-43: SimpleRequestHandler at /webhook.  It hands the update to a
\* new task and answers 200 at once, before any handler has run.
webhook_handler(i) ==
    /\ LoopRunning
    /\ req[i].path = "/webhook"
    /\ req[i].status = 0
    /\ req' = [req EXCEPT ![i].status = 200, ![i].body = "{}",
                          ![i].task = "scheduled"]
    /\ UNCHANGED <<config, pc, exitCode, failure, bot, session, listening,
                   webhookCalls, registered, bindAttempts, sent, logged>>

\* Mutant: the greeting names the default bot, not the configured one.
ReplyText_DefaultName(name, text) ==
    "[robot] Hello 111 from bot! You said: " \o Format(text)

\* Line 25: the text echo_handler passes to message.answer().  The f-string
\* opens with the robot emoji U+1F916, written "[robot]" here.
ReplyText(name, text) ==
    "[robot] Hello 111 from " \o name \o "! You said: " \o Format(text)

\* Lines 22-25: the task feeds the update to the dispatcher.  Its only
\* handler, echo_handler, is registered for messages: it issues one
\* sendMessage to the message's chat and awaits it.  Making the call creates
\* the client session when there is none open.  Any other update is dropped.
echo_handler(i) ==
    /\ LoopRunning
    /\ req[i].task = "scheduled"
    /\ IF req[i].update.kind = "message"
       THEN /\ sent' = Append(sent,
                    [req |-> i, chat_id |-> req[i].update.chat,
                     text |-> ReplyText(BOT_NAME, req[i].update.text)])
            /\ session' = "open"
            /\ req' = [req EXCEPT ![i].task = "awaiting_send"]
       ELSE /\ req' = [req EXCEPT ![i].task = "done"]
            /\ UNCHANGED <<sent, session>>
    /\ UNCHANGED <<config, pc, exitCode, failure, bot, listening, webhookCalls,
                   registered, bindAttempts, logged>>

\* The awaited sendMessage returns: echo_handler returns, the task ends.
send_ok(i) ==
    /\ LoopRunning
    /\ req[i].task = "awaiting_send"
    /\ BOT_TOKEN \in AcceptedTokens
    /\ req' = [req EXCEPT ![i].task = "done"]
    /\ UNCHANGED <<config, pc, exitCode, failure, bot, session, listening,
                   webhookCalls, registered, bindAttempts, sent, logged>>

\* Mutant: echo_handler catches the failure and answers with an error text.
send_raise_ErrorReply(i) ==
    /\ LoopRunning
    /\ req[i].task = "awaiting_send"
    /\ req' = [req EXCEPT ![i].task = "failed"]
    /\ logged' = logged \cup {i}
    /\ sent' = Append(sent,
            [req |-> i, chat_id |-> req[i].update.chat, text |-> "error"])
    /\ UNCHANGED <<config, pc, exitCode, failure, bot, session, listening,
                   webhookCalls, registered, bindAttempts>>

\* The awaited sendMessage raises.  echo_handler has no except clause: the
\* exception ends the task, where it is logged and goes no further.
send_raise(i) ==
    /\ LoopRunning
    /\ req[i].task = "awaiting_send"
    /\ req' = [req EXCEPT ![i].task = "failed"]
    /\ logged' = logged \cup {i}
    /\ UNCHANGED <<config, pc, exitCode, failure, bot, session, listening,
                   webhookCalls, registered, bindAttempts, sent>>

-----------------------------------------------------------------------------
(* Specification *)

Next ==
    \/ CreateBot
    \/ main_begin
    \/ set_webhook_ok
    \/ set_webhook_raise
    \/ \E ok \in BOOLEAN : runner_setup(ok)
    \/ \E ok \in BOOLEAN : site_start(ok)
    \/ TerminateStartup
    \/ TerminateServing
    \/ session_closed
    \/ \E u \in Updates : Arrive("/webhook", u)
    \/ Arrive("/health", NoUpdate)
    \/ \E i \in DOMAIN req : health_check(i)
    \/ \E i \in DOMAIN req : webhook_handler(i)
    \/ \E i \in DOMAIN req : echo_handler(i)
    \/ \E i \in DOMAIN req : send_ok(i)
    \/ \E i \in DOMAIN req : send_raise(i)

Spec == Init /\ [][Next]_vars

\* The steps the process takes by itself: the interpreter and the event loop
\* run whatever is ready, and an awaited call returns or raises in bounded
\* time.  Requests and interrupts come from outside and may never come.
Step ==
    \/ CreateBot
    \/ main_begin
    \/ set_webhook_ok
    \/ set_webhook_raise
    \/ \E ok \in BOOLEAN : runner_setup(ok)
    \/ \E ok \in BOOLEAN : site_start(ok)
    \/ session_closed
    \/ \E i \in DOMAIN req : health_check(i)
    \/ \E i \in DOMAIN req : webhook_handler(i)
    \/ \E i \in DOMAIN req : echo_handler(i)
    \/ \E i \in DOMAIN req : send_ok(i)
    \/ \E i \in DOMAIN req : send_raise(i)

FairSpec == Spec /\ WF_vars(Step)

-----------------------------------------------------------------------------
(* Properties *)

\* The sendMessage calls issued for request i.
SendsFor(i) == {k \in DOMAIN sent : sent[k].req = i}

\* The requests that carried a message.
Messages ==
    {i \in DOMAIN req : req[i].path = "/webhook" /\ req[i].update.kind = "message"}

\* Tasks that are yet to run or to finish.
InFlight == {i \in DOMAIN req : req[i].task \in {"scheduled", "awaiting_send"}}

\* The greeting the reply opens with, for a bot called name.
Greeting(name) == "[robot] Hello 111 from " \o name \o "! You said: "

\* C1: every answered POST /webhook is answered 200; a message whose handler
\* has run has exactly one sendMessage, to the message's chat, and for a text
\* message its text is the greeting with the configured bot name followed by
\* the text; an update that is no message has none; and once every task has
\* finished there are as many sends as messages.
C1_OneReplyPerMessage ==
    /\ \A i \in DOMAIN req :
          req[i].path = "/webhook" =>
            /\ req[i].status \in {0, 200}
            /\ Cardinality(SendsFor(i)) <= 1
            /\ req[i].update.kind # "message" => SendsFor(i) = {}
            /\ (req[i].update.kind = "message"
                  /\ req[i].task \in {"awaiting_send", "done", "failed"}) =>
                  /\ Cardinality(SendsFor(i)) = 1
                  /\ \A k \in SendsFor(i) :
                        /\ sent[k].chat_id = req[i].update.chat
                        /\ req[i].update.text # None =>
                              sent[k].text =
                                Greeting(BOT_NAME) \o req[i].update.text[1]
    /\ (\A i \in DOMAIN req :
            req[i].path = "/webhook" => req[i].task \in {"done", "failed"})
          => Len(sent) = Cardinality(Messages)

C1_Witness ==
    /\ BOT_NAME = "garden"
    /\ Len(req) = 2
    /\ req[1].update = [kind |-> "message", chat |-> 9, text |-> Str("hi")]
    /\ req[1].task = "done"
    /\ req[2].update = [kind |-> "other"]
    /\ req[2].task = "done" /\ req[2].status = 200
    /\ Len(sent) = 1

\* The state part of C2: answers to /health, and pending requests.
C2_HealthState ==
    \A i \in DOMAIN req :
        /\ (req[i].path = "/health" /\ req[i].status # 0) =>
              (req[i].status = 200 /\ req[i].body = "OK" /\ req[i].task = "none")
        /\ (listening /\ req[i].status = 0) =>
              IF req[i].path = "/health"
              THEN ENABLED health_check(i)
              ELSE ENABLED webhook_handler(i)

\* The step part of C2: what answering /health changes.
C2_HealthStep ==
    \A i \in DOMAIN req :
        health_check(i) =>
            /\ UNCHANGED <<config, pc, exitCode, failure, bot, session, listening,
                           webhookCalls, registered, bindAttempts, sent, logged>>
            /\ \A j \in DOMAIN req : j # i => req'[j] = req[j]

\* C2: while the server is bound, a pending GET /health (and a pending POST
\* /webhook) can be answered whatever tasks are suspended in their send; the
\* answer to /health is 200 "OK"; and answering it changes nothing but that
\* request's response.
C2_HealthAlwaysAnswered == []C2_HealthState /\ [][C2_HealthStep]_vars

C2_Witness ==
    /\ Len(req) = 2
    /\ req[1].task = "awaiting_send"
    /\ req[2].path = "/health"
    /\ req[2].status = 200 /\ req[2].body = "OK"

\* C3: a startup step that fails ends the process in that very step with a
\* non-zero status, before any request was served; a missing token is such a
\* failure; and no step is attempted twice.
C3_StartupFailureIsFatal ==
    /\ failure # "none" =>
          /\ pc = "exited"
          /\ exitCode # 0
          /\ ~listening
          /\ req = <<>>
    /\ (BOT_TOKEN = None /\ pc # "import") => failure = "token"
    /\ Len(webhookCalls) <= 1
    /\ bindAttempts <= 1

C3_Witness ==
    /\ failure = "webhook"
    /\ pc = "exited"
    /\ exitCode = 1
    /\ Len(webhookCalls) = 1

\* C4: with a token the platform does not accept, the process ends with a
\* non-zero status whatever WEBHOOK_URL is.
C4_BadTokenTerminates ==
    (BOT_TOKEN \notin AcceptedTokens) => <>(pc = "exited" /\ exitCode # 0)

\* C5: with WEBHOOK_URL unset or empty no set_webhook call is ever issued and
\* startup cannot fail on registration; the port is still bound.
C5_NoUrlNoRegistration ==
    ~Truthy(WEBHOOK_URL) =>
        /\ webhookCalls = <<>>
        /\ registered = None
        /\ pc # "set_webhook"
        /\ failure # "webhook"
        /\ pc = "site_start" => ENABLED site_start(TRUE)

C5_Witness ==
    /\ WEBHOOK_URL = None
    /\ pc = "serving"
    /\ listening
    /\ webhookCalls = <<>>
    /\ Len(req) = 1
    /\ req[1].path = "/health" /\ req[1].status = 200

\* C6: once the client exists, the process never ends with its session open.
C6_SessionReleasedOnExit ==
    (pc = "exited" /\ bot) => session # "open"

\* The state part of C7: what holds of a request whose send failed.
C7_FailureState ==
    /\ \A i \in DOMAIN req :
          req[i].task = "failed" =>
            /\ i \in logged
            /\ req[i].status = 200
            /\ Cardinality(SendsFor(i)) = 1
            /\ \A k \in SendsFor(i) :
                  sent[k].text = ReplyText(BOT_NAME, req[i].update.text)
    /\ (\E i \in DOMAIN req : req[i].task = "failed") => failure = "none"

\* The step part of C7: what the failing of a send changes.
C7_FailureStep ==
    \A i \in DOMAIN req :
        (req[i].task = "awaiting_send" /\ req'[i].task = "failed") =>
            /\ pc' = pc
            /\ listening' = listening
            /\ session' = session
            /\ sent' = sent

\* C7: a send that fails is logged; its webhook request was answered 200; it
\* is the only send made for that message and carries the echo, not an error
\* text; and the failure neither ends the process nor closes the socket.
C7_HandlerFailureContained == []C7_FailureState /\ [][C7_FailureStep]_vars

C7_Witness ==
    /\ Len(req) = 2
    /\ req[1].task = "failed"
    /\ 1 \in logged
    /\ pc = "serving"
    /\ req[2].path = "/webhook"
    /\ req[2].task = "done"
    /\ Len(sent) = 2

\* C8: for a message whose text is empty or absent the reply is the greeting
\* followed by nothing.
C8_EmptyEcho ==
    \A k \in DOMAIN sent :
        ~Truthy(req[sent[k].req].update.text) =>
            sent[k].text = Greeting(BOT_NAME)

\* C9 as stated: the registration call is made with the port already bound.
C9_RegisterAfterBind ==
    pc = "set_webhook" => (listening /\ bindAttempts > 0)

\* C9 as amended: the registration call, with drop_pending_updates set, is
\* made before the port is bound; the bind is attempted only once a configured
\* URL has been registered; without a configured URL nothing is registered.
C9_RegisterBeforeBind ==
    /\ pc = "set_webhook" => (~listening /\ bindAttempts = 0)
    /\ \A k \in DOMAIN webhookCalls :
          /\ webhookCalls[k].url = WEBHOOK_URL[1]
          /\ webhookCalls[k].drop_pending_updates
    /\ (bindAttempts > 0 \/ listening) =>
          IF WebhookConfigured
          THEN registered = WEBHOOK_URL /\ Len(webhookCalls) = 1
          ELSE registered = None /\ webhookCalls = <<>>

C9_Witness ==
    /\ pc = "serving"
    /\ listening
    /\ Len(webhookCalls) = 1
    /\ registered = Str("https://bot.example/webhook")

\* C10: the session is closed only after the socket stopped accepting and
\* every handler invocation has finished.
C10_SessionClosedLast ==
    session = "closed" => (~listening /\ InFlight = {})

====
